---- MODULE Spec2Model ----
(***************************************************************************)
(* A state-machine model of the two scripts of docx-xml-wizzard:           *)
(*   script.py          - groups elements that must share a page, runs a   *)
(*                        page estimator and inserts empty paragraphs      *)
(*                        before split groups (the reflow loop);           *)
(*   visual_approach.py - removes empty elements, extracts groups with a   *)
(*                        sliding window, renders the document and checks   *)
(*                        the groups against the rendered pages.           *)
(* Text is modelled character by character (a sequence of one-character    *)
(* strings), so that strip, split, len, isupper, "in" and the regular       *)
(* expressions are computed the way the scripts compute them.  Heights are  *)
(* exact rationals scaled to integers (see HeightUnit); the scripts use     *)
(* IEEE doubles, which agree with the exact value except within rounding    *)
(* error of a tie.                                                          *)
(***************************************************************************)
EXTENDS Integers, Sequences, FiniteSets, TLC

----------------------------------------------------------------------------
(* Characters and the str methods the scripts use. *)

UpperLetters ==
    <<"A", "B", "C", "D", "E", "F", "G", "H", "I", "J", "K", "L", "M", "N", "O", "P", "Q", "R", "S", "T", "U", "V", "W", "X", "Y", "Z">>

LowerLetters ==
    <<"a", "b", "c", "d", "e", "f", "g", "h", "i", "j", "k", "l", "m", "n", "o", "p", "q", "r", "s", "t", "u", "v", "w", "x", "y", "z">>

Digits == {"0", "1", "2", "3", "4", "5", "6", "7", "8", "9"}

Range(s) == {s[k] : k \in DOMAIN s}

\* c.isupper() / c.islower() / c.isalpha() of a single character
IsUpper(c) == c \in Range(UpperLetters)
IsLower(c) == c \in Range(LowerLetters)
IsAlpha(c) == IsUpper(c) \/ IsLower(c)

\* \s of the regular expressions and the whitespace of str.strip / str.split
IsSpace(c) == c \in {" ", "\n", "\t"}

\* \w of the regular expressions (where \b has its word side)
IsWordChar(c) == IsAlpha(c) \/ c \in Digits \/ c = "_"

\* c.lower()
LowerChar(c) ==
    IF IsUpper(c)
    THEN LowerLetters[CHOOSE k \in DOMAIN UpperLetters : UpperLetters[k] = c]
    ELSE c

\* text.lower()
Lower(text) == [k \in DOMAIN text |-> LowerChar(text[k])]

\* text.strip()
Strip(text) ==
    IF \A k \in DOMAIN text : IsSpace(text[k]) THEN <<>>
    ELSE LET lo == CHOOSE k \in DOMAIN text :
                       ~IsSpace(text[k]) /\ \A m \in 1..(k - 1) : IsSpace(text[m])
             hi == CHOOSE k \in DOMAIN text :
                       ~IsSpace(text[k]) /\ \A m \in (k + 1)..Len(text) : IsSpace(text[m])
         IN  SubSeq(text, lo, hi)

\* the start positions of the words of text.split(), in order
WordStarts(text) ==
    {k \in DOMAIN text : ~IsSpace(text[k]) /\ (k = 1 \/ IsSpace(text[k - 1]))}

\* the end position of the word that starts at k
WordEnd(text, k) ==
    CHOOSE e \in k..Len(text) :
        /\ \A m \in k..e : ~IsSpace(text[m])
        /\ (e = Len(text) \/ IsSpace(text[e + 1]))

\* the elements of a finite set of integers in ascending order
RECURSIVE SortedSeq(_)
SortedSeq(S) ==
    IF S = {} THEN <<>>
    ELSE LET m == CHOOSE x \in S : \A y \in S : x <= y
         IN  <<m>> \o SortedSeq(S \ {m})

\* text.split(): the list of words
Split(text) ==
    LET starts == SortedSeq(WordStarts(text))
    IN  [w \in DOMAIN starts |-> SubSeq(text, starts[w], WordEnd(text, starts[w]))]

\* ' '.join(words)
RECURSIVE Join(_)
Join(words) ==
    IF words = <<>> THEN <<>>
    ELSE IF Len(words) = 1 THEN words[1]
    ELSE words[1] \o <<" ">> \o Join(Tail(words))

\* re.sub(r'\s+', ' ', text): every run of whitespace becomes one space
CollapseSpaces(text) ==
    LET kept == SelectSeq([k \in DOMAIN text |-> k],
                          LAMBDA k : ~IsSpace(text[k]) \/ k = 1 \/ ~IsSpace(text[k - 1]))
    IN  [k \in DOMAIN kept |-> IF IsSpace(text[kept[k]]) THEN " " ELSE text[kept[k]]]

\* re.sub(r'\s+', ' ', text.strip().lower())
Normalize(text) == CollapseSpaces(Lower(Strip(text)))

\* a in b for strings: a is a contiguous substring of b
Contains(b, a) ==
    \E s \in 0..(Len(b) - Len(a)) : \A k \in 1..Len(a) : b[s + k] = a[k]

----------------------------------------------------------------------------
(* _count_sentences *)

abbreviations ==
    <<
       <<"P","T">>, <<"C","V">>, <<"U","D">>, <<"T","b","k">>, <<"L","t","d">>,
       <<"I","n","c">>, <<"C","o","r","p">>, <<"D","r">>, <<"d","r">>,
       <<"P","r","o","f">>, <<"I","r">>, <<"D","r","s">>, <<"D","r","a">>, <<"S","T">>,
       <<"S","E">>, <<"S","H">>, <<"M","M">>, <<"M",".","S","i">>,
       <<"M",".","K","o","m">>, <<"M",".","P","d">>, <<"S",".","K","o","m">>,
       <<"S",".","E">>, <<"S",".","H">>, <<"H","j">>, <<"H">>, <<"K","H">>,
       <<"N","o">>, <<"N","o","m","o","r">>, <<"T","e","l">>, <<"T","e","l","p">>,
       <<"F","a","x">>, <<"H","p">>, <<"J","l">>, <<"J","l","n">>, <<"G","g">>,
       <<"K","e","c">>, <<"K","e","l">>, <<"K","a","b">>, <<"P","r","o","v">>,
       <<"R","T">>, <<"R","W">>, <<"J","a","n">>, <<"F","e","b">>, <<"M","a","r">>,
       <<"A","p","r">>, <<"M","e","i">>, <<"J","u","n">>, <<"J","u","l">>,
       <<"A","g","t">>, <<"S","e","p">>, <<"O","k","t">>, <<"N","o","v">>,
       <<"D","e","s">>
    >>

\* \b at the left of position k: a word character at k and none before it
\* (every abbreviation starts with a letter)
BoundaryBefore(text, k) == k = 1 \/ ~IsWordChar(text[k - 1])

\* The periods that re.sub(abbrev_pattern, r'\1<ABBREV>', text, re.IGNORECASE)
\* replaces: position e holds "." and an abbreviation, compared without case,
\* ends right before it and starts at a word boundary.  No abbreviation
\* followed by "." is a prefix of another, and no match can start inside
\* another and end later, so the matches are exactly these.
AbbrevPeriods(text) ==
    {e \in DOMAIN text :
        /\ text[e] = "."
        /\ \E a \in DOMAIN abbreviations :
              LET ab == abbreviations[a]
                  s  == e - Len(ab)
              IN  /\ s >= 1
                  /\ BoundaryBefore(text, s)
                  /\ Lower(SubSeq(text, s, e - 1)) = Lower(ab)}

\* position k of text_processed holds one of . ! ?
IsEndMark(text, k) ==
    text[k] \in {".", "!", "?"} /\ k \notin AbbrevPeriods(text)

\* (?:\s+[A-Z]|$) right after position e of the text: whitespace and then an
\* upper-case letter, or the end of the text ($ also matches before one final
\* newline)
SentenceFollows(text, e) ==
    \/ e = Len(text)
    \/ e + 1 = Len(text) /\ text[e + 1] = "\n"
    \/ \E u \in (e + 2)..Len(text) :
          /\ IsUpper(text[u])
          /\ \A m \in (e + 1)..(u - 1) : IsSpace(text[m])

\* re.findall(r'[.!?]+(?:\s+[A-Z]|$)', text_processed): one match for every
\* maximal run of end marks that the follow-up accepts
SentenceEnds(text) ==
    {e \in DOMAIN text :
        /\ IsEndMark(text, e)
        /\ (e = Len(text) \/ ~IsEndMark(text, e + 1))
        /\ SentenceFollows(text, e)}

_count_sentences(text) ==
    LET sentence_count == Cardinality(SentenceEnds(text))
    IN  IF sentence_count = 0 /\ Len(Strip(text)) > 0 THEN 1 ELSE sentence_count

----------------------------------------------------------------------------
(* Elements of the document body.  An element is what the scripts read of  *)
(* a child of w:body: its tag, the concatenation of its w:t texts, and its *)
(* w:numPr list properties (w:ilvl and w:numId may each be absent).        *)

Element(tag, text, numPr, has_ilvl, ilvl, has_numId, numId) ==
    [tag |-> tag, text |-> text, numPr |-> numPr,
     has_ilvl |-> has_ilvl, ilvl |-> ilvl, has_numId |-> has_numId, numId |-> numId]

\* a text of n characters made of words of wordlen - 1 letters
LongText(n, wordlen) == [k \in 1..n |-> IF k % wordlen = 0 THEN " " ELSE "x"]

\* the text of single-letter words w[1] w[2] ... separated by one space
Spaced(w) == Join([k \in DOMAIN w |-> <<w[k]>>])

_create_empty_paragraph == Element("p", <<>>, FALSE, FALSE, 0, FALSE, 0)

\* The elements the documents of the model are made of.
Catalog ==
    << _create_empty_paragraph,                                           \* 1
       Element("p", <<"1", " ", "A", "B">>, TRUE, TRUE, 0, TRUE, 1),      \* 2
       Element("p", LongText(1000, 10), FALSE, FALSE, 0, FALSE, 0),       \* 3
       Element("p", LongText(2800, 400), FALSE, FALSE, 0, FALSE, 0),      \* 4
       Element("p", LongText(2250, 400), FALSE, FALSE, 0, FALSE, 0),      \* 5
       Element("p", <<"1", " ">> \o Spaced(SubSeq(UpperLetters, 1, 15)),
               TRUE, FALSE, 0, TRUE, 1),                                  \* 6
       Element("p", LongText(3000, 10), FALSE, FALSE, 0, FALSE, 0),       \* 7
       Element("p", <<"z", "z">>, FALSE, FALSE, 0, FALSE, 0),             \* 8
       Element("p", <<"A", " ", "b", " ", "c", " ", "d", " ", "e", " ", "f", " ",
                      "g", " ", "h", " ", " ", "i", " ", "j", " ", "k", " ", "l",
                      " ", "m", " ", "n", " ", "o", " ", "p", " ">>,
               FALSE, FALSE, 0, FALSE, 0),                                \* 9
       Element("p", <<"x", " ", "y">>, TRUE, TRUE, 1, TRUE, 1),           \* 10
       Element("sectPr", <<>>, FALSE, FALSE, 0, FALSE, 0),                \* 11
       Element("p", <<" ", " ">>, FALSE, FALSE, 0, FALSE, 0)              \* 12
    >>

EmptyKind == CHOOSE k \in DOMAIN Catalog : Catalog[k] = _create_empty_paragraph

----------------------------------------------------------------------------
(* Classification helpers (the same code in both scripts). *)

_get_text_content(element) == element.text

_is_list_item(element) == element.numPr

\* None is <<>>, a level n is <<n>>
_get_list_level(element) ==
    IF ~element.numPr THEN <<>>
    ELSE IF element.has_ilvl THEN <<element.ilvl>>
    ELSE <<0>>

\* sum(1 for c in text if pred(c))
CountUpper(text) == Cardinality({k \in DOMAIN text : IsUpper(text[k])})
CountAlpha(text) == Cardinality({k \in DOMAIN text : IsAlpha(text[k])})

_is_heading(element) ==
    LET text == Strip(_get_text_content(element))
    IN  /\ text # <<>>
        /\ _is_list_item(element)
        /\ _get_list_level(element) = <<0>>
        /\ LET words == Split(text)
           IN  /\ Len(words) > 1
               /\ LET significant_text == Join(Tail(words))
                      upper_count == CountUpper(significant_text)
                      alpha_count == CountAlpha(significant_text)
                  \* upper_count / alpha_count > 0.5
                  IN  alpha_count > 0 /\ 2 * upper_count > alpha_count

min_sentences == 2
min_words == 15

\* sentence_count >= min_sentences or len(text.split()) >= min_words
IsParagraphText(text) ==
    \/ _count_sentences(text) >= min_sentences
    \/ Cardinality(WordStarts(text)) >= min_words

_is_paragraph(element) == IsParagraphText(_get_text_content(element))

----------------------------------------------------------------------------
(* The page estimator of script.py.  Lengths are in tenths of a point;     *)
(* heights are in HeightUnit-ths of a tenth of a point, which makes        *)
(* len(text) / chars_per_line * line_height an integer.                    *)

PAGE_CONTENT_HEIGHT == 7272
CONTENT_WIDTH == 4479
font_size == 110

line_height == (font_size * 15) \div 10
char_width == (font_size * 6) \div 10

\* chars_per_line = CONTENT_WIDTH / char_width, so a height h in tenths of a
\* point is the integer h * CONTENT_WIDTH in these units
HeightUnit == CONTENT_WIDTH

Max(a, b) == IF a >= b THEN a ELSE b

_estimate_element_height(element) ==
    LET text == _get_text_content(element)
    IN  IF Strip(text) = <<>>
        THEN line_height * HeightUnit
        ELSE \* max(1, len(text) / chars_per_line) * line_height + 6
             Max(HeightUnit, Len(text) * char_width) * line_height
                 + 60 * HeightUnit

\* what the scripts compute of each element of the catalog
KindHeight == [k \in DOMAIN Catalog |-> _estimate_element_height(Catalog[k])]
KindIsHeading == [k \in DOMAIN Catalog |-> _is_heading(Catalog[k])]
KindIsParagraph == [k \in DOMAIN Catalog |-> _is_paragraph(Catalog[k])]
KindIsEmpty == [k \in DOMAIN Catalog |-> Strip(Catalog[k].text) = <<>>]

\* The loop of _calculate_page_positions from element index i (0-based) on:
\* heights are the elements' estimated heights in document order.
RECURSIVE PageLoop(_, _, _, _, _)
PageLoop(heights, i, cumulative_height, current_page, element_pages) ==
    IF i >= Len(heights) THEN element_pages
    ELSE IF cumulative_height + heights[i + 1] > PAGE_CONTENT_HEIGHT * HeightUnit
         THEN \* start a new page
              PageLoop(heights, i + 1, heights[i + 1], current_page + 1,
                       Append(element_pages, current_page + 1))
         ELSE PageLoop(heights, i + 1, cumulative_height + heights[i + 1],
                       current_page, Append(element_pages, current_page))

\* A variant of the loop that records the overflowing element on the next
\* page without advancing current_page.
RECURSIVE PageLoop_NoAdvance(_, _, _, _, _)
PageLoop_NoAdvance(heights, i, cumulative_height, current_page, element_pages) ==
    IF i >= Len(heights) THEN element_pages
    ELSE IF cumulative_height + heights[i + 1] > PAGE_CONTENT_HEIGHT * HeightUnit
         THEN PageLoop_NoAdvance(heights, i + 1, heights[i + 1], current_page,
                                 Append(element_pages, current_page + 1))
         ELSE PageLoop_NoAdvance(heights, i + 1, cumulative_height + heights[i + 1],
                                 current_page, Append(element_pages, current_page))

PagesOfHeights_NoAdvance(heights) == PageLoop_NoAdvance(heights, 0, 0, 1, <<>>)

\* A variant of the loop that starts the new page with cumulative height 0
\* instead of the overflowing element's own height.
RECURSIVE PageLoop_ResetToZero(_, _, _, _, _)
PageLoop_ResetToZero(heights, i, cumulative_height, current_page, element_pages) ==
    IF i >= Len(heights) THEN element_pages
    ELSE IF cumulative_height + heights[i + 1] > PAGE_CONTENT_HEIGHT * HeightUnit
         THEN PageLoop_ResetToZero(heights, i + 1, 0, current_page + 1,
                                   Append(element_pages, current_page + 1))
         ELSE PageLoop_ResetToZero(heights, i + 1, cumulative_height + heights[i + 1],
                                   current_page, Append(element_pages, current_page))

PagesOfHeights_ResetToZero(heights) == PageLoop_ResetToZero(heights, 0, 0, 1, <<>>)

\* element_pages as the sequence of pages of indices 0, 1, ...: the page of
\* index idx is element_pages[idx + 1]
PagesOfHeights(heights) == PageLoop(heights, 0, 0, 1, <<>>)

----------------------------------------------------------------------------
(* State.  Elements have identity: element id is the id-th element ever    *)
(* created, nodes[id] is its kind (an index of Catalog).  body is the      *)
(* child list of w:body, all_elements the script's Python list of the same *)
(* elements.  Indices into the lists are 0-based as in the scripts.        *)

VARIABLES
    prog,                     \* which script runs: "script" or "visual"
    pc,                       \* the script's position
    nodes,                    \* element id -> kind
    body,                     \* children of w:body, by id
    all_elements,             \* the list all_elements, by id
    i,                        \* script.py: index of the grouping loop
    groups,                   \* script.py: the groups, each a list of ids
    current_list_count,       \* script.py
    element_pages,            \* script.py: page of index idx at [idx + 1]
    total_line_breaks_added,  \* script.py
    group_idx,                \* script.py: index of the reflow for-loop
    group_indices,            \* script.py
    first_idx,                \* script.py
    line_breaks_added,        \* script.py
    printed,                  \* the reports printed so far
    saved,                    \* the body written to the output file
    P,                        \* visual_approach.py: the extracted groups
    V,                        \* visual_approach.py: the rendered pages
    W,                        \* visual_approach.py: the split groups
    pages_for_group,          \* visual_approach.py: detect_split_groups'
                              \* list pages_for_group of each group of P
    G,                        \* visual_approach.py: the pattern catalog
    uploaded,                 \* visual_approach.py: the elements of the file
                              \* generate_pdf sent to the renderer
    arg_element,              \* a function called alone: its element
    arg_next_element,         \* its next element: <<>> for None, <<e>> for e
    arg_current_index,        \* its index argument
    returned                  \* the values returned by the calls so far

vars ==
    <<prog, pc, nodes, body, all_elements, i, groups, current_list_count,
      element_pages, total_line_breaks_added, group_idx, group_indices,
      first_idx, line_breaks_added, printed, saved, P, V, W, pages_for_group,
      G, uploaded, arg_element, arg_next_element, arg_current_index, returned>>

\* the variables of visual_approach.py alone
visualVars == <<P, V, W, pages_for_group, G, uploaded>>

\* the variables of the functions called alone
callVars == <<arg_element, arg_next_element, arg_current_index, returned>>

\* the variables of script.py alone
scriptVars ==
    <<i, groups, current_list_count, element_pages, total_line_breaks_added,
      group_idx, group_indices, first_idx, line_breaks_added, printed, saved>>

\* the element record of an element id
Elem(id) == Catalog[nodes[id]]

\* lst[idx] for a 0-based index
At(lst, idx) == lst[idx + 1]

\* lst.index(x): the 0-based index of the first occurrence (x is in lst)
IndexOf(lst, x) ==
    (CHOOSE k \in DOMAIN lst : lst[k] = x /\ \A m \in 1..(k - 1) : lst[m] # x) - 1

\* lst.insert(pos, x) for pos >= 0 (a position past the end appends)
InsertAt(lst, pos, x) ==
    IF pos >= Len(lst) THEN Append(lst, x)
    ELSE SubSeq(lst, 1, pos) \o <<x>> \o SubSeq(lst, pos + 1, Len(lst))

_calculate_page_positions(elements) ==
    PagesOfHeights([k \in DOMAIN elements |-> KindHeight[nodes[elements[k]]]])

\* element_pages.get(idx, 1)
PageGet(pages, idx) == IF idx + 1 \in DOMAIN pages THEN pages[idx + 1] ELSE 1

\* the indices of the members of a group that all_elements.index finds
\* (a member that is not in the list raises ValueError and is skipped)
IndicesOf(elements, group) ==
    LET present == SelectSeq(group, LAMBDA e : e \in Range(elements))
    IN  [k \in DOMAIN present |-> IndexOf(elements, present[k])]

\* set(element_pages.get(idx, 1) for idx in group_indices)
UniquePages(pages, indices) == {PageGet(pages, indices[k]) : k \in DOMAIN indices}

\* min(group_indices)
MinOf(indices) ==
    CHOOSE m \in Range(indices) : \A x \in Range(indices) : m <= x

\* variant: the empty paragraph goes before the element at index, not after it
_insert_line_break_before(b, elements, nds, index) ==
    IF index < 0 \/ index >= Len(elements)
    THEN [body |-> b, all_elements |-> elements, nodes |-> nds]
    ELSE LET empty_para == Len(nds) + 1
             insert_position == At(elements, index)
             insert_idx == IndexOf(b, insert_position)
         IN  [body |-> InsertAt(b, insert_idx, empty_para),
              all_elements |-> InsertAt(elements, index, empty_para),
              nodes |-> Append(nds, EmptyKind)]

\* _insert_line_break_after(body, all_elements, index): the new body, list and
\* nodes; nothing changes when index is out of range
_insert_line_break_after(b, elements, nds, index) ==
    IF index < 0 \/ index >= Len(elements)
    THEN [body |-> b, all_elements |-> elements, nodes |-> nds]
    ELSE LET empty_para == Len(nds) + 1
             insert_position == At(elements, index)
             insert_idx == IndexOf(b, insert_position) + 1
         IN  [body |-> InsertAt(b, insert_idx, empty_para),
              all_elements |-> InsertAt(elements, index + 1, empty_para),
              nodes |-> Append(nds, EmptyKind)]

max_attempts == 10

\* variant: the loop is entered for a group at index 0 as well
HasElementBefore_Any(idx) == idx >= 0

\* line 436: if first_idx > 0
HasElementBefore(idx) == idx > 0

\* variant: one attempt too many
MayAttempt_Inclusive(n) == n <= max_attempts

\* line 441: while line_breaks_added < max_attempts
MayAttempt(n) == n < max_attempts

\* variant: the length of the list of pages, not of the set
GroupFixed_ListLength(pages, indices) == Len(indices) = 1

\* lines 461-464: if len(unique_pages) == 1
GroupFixed(pages, indices) == Cardinality(UniquePages(pages, indices)) = 1

\* variant: > for >=
Exhausted_Strict(n) == n > max_attempts

\* line 470: if line_breaks_added >= max_attempts
Exhausted(n) == n >= max_attempts

----------------------------------------------------------------------------
(* script.py, the module body from line 339 on. *)

\* the longest document of the model, in elements
MaxLen == 4

\* visual_approach.py: the pattern catalog, in the order of the dict
GROUP_PATTERNS ==
    << [name |-> "heading+paragraph", types |-> <<"heading", "paragraph">>],
       [name |-> "paragraph", types |-> <<"paragraph">>],
       [name |-> "heading+list", types |-> <<"heading", "list">>] >>

\* the kinds the documents given to script.py are made of
ScriptKinds == 1..7

Documents(kinds) == UNION {[1..n -> kinds] : n \in 0..MaxLen}

Report(msg, group, n) == [msg |-> msg, group |-> group, n |-> n]

\* lines 339-358: the document is parsed, all_elements = list(body)
InitScript ==
    /\ prog = "script"
    /\ pc = "grouping"
    /\ nodes \in Documents(ScriptKinds)
    /\ body = [k \in DOMAIN nodes |-> k]
    /\ all_elements = body
    /\ i = 0
    /\ groups = <<>>
    /\ current_list_count = 0
    /\ element_pages = <<>>
    /\ total_line_breaks_added = 0
    /\ group_idx = 0
    /\ group_indices = <<>>
    /\ first_idx = 0
    /\ line_breaks_added = 0
    /\ printed = <<>>
    /\ saved = <<>>
    /\ P = <<>>
    /\ V = [pages |-> <<>>]
    /\ W = <<>>
    /\ pages_for_group = <<>>
    /\ G = GROUP_PATTERNS
    /\ uploaded = <<>>
    /\ arg_element = _create_empty_paragraph
    /\ arg_next_element = <<>>
    /\ arg_current_index = 0
    /\ returned = <<>>

\* lines 359-399: one iteration of the grouping loop.  A heading that is the
\* last element makes _get_text_content(None) raise AttributeError, which
\* nothing catches: the script ends there.
GroupingStep ==
    /\ prog = "script" /\ pc = "grouping"
    /\ i < Len(all_elements)
    /\ LET element == At(all_elements, i)
           has_next == i + 1 < Len(all_elements)
           is_paragraph == KindIsParagraph[nodes[element]]
           with_single == IF is_paragraph THEN Append(groups, <<element>>) ELSE groups
       IN  /\ current_list_count' =
                 IF _is_list_item(Elem(element)) THEN current_list_count + 1
                 ELSE current_list_count
           /\ IF KindIsHeading[nodes[element]]
              THEN IF ~has_next
                   THEN /\ groups' = with_single
                        /\ pc' = "crashed"
                        /\ i' = i
                   ELSE LET next_element == At(all_elements, i + 1)
                        IN  /\ groups' =
                                  IF KindIsParagraph[nodes[next_element]]
                                  THEN Append(with_single, <<element, next_element>>)
                                  ELSE with_single
                            /\ pc' = pc
                            /\ i' = i + 1
              ELSE /\ groups' = with_single
                   /\ pc' = pc
                   /\ i' = i + 1
    /\ UNCHANGED <<prog, nodes, body, all_elements, element_pages,
                   total_line_breaks_added, group_idx, group_indices, first_idx,
                   line_breaks_added, printed, saved,
                   visualVars, callVars>>

\* lines 401-411: the grouping loop ends, the pages are estimated
CalculatePages ==
    /\ prog = "script" /\ pc = "grouping"
    /\ i >= Len(all_elements)
    /\ element_pages' = _calculate_page_positions(all_elements)
    /\ total_line_breaks_added' = 0
    /\ group_idx' = 0
    /\ pc' = "check"
    /\ UNCHANGED <<prog, nodes, body, all_elements, i, groups, current_list_count,
                   group_indices, first_idx, line_breaks_added, printed, saved,
                   visualVars, callVars>>

\* lines 413-439: the head of the for loop for one group, up to the while loop
CheckGroup ==
    /\ prog = "script" /\ pc = "check"
    /\ group_idx < Len(groups)
    /\ LET group == At(groups, group_idx)
           indices == IndicesOf(all_elements, group)
           unique_pages == UniquePages(element_pages, indices)
       IN  /\ group_indices' = indices
           /\ IF indices # <<>> /\ Cardinality(unique_pages) > 1
              THEN /\ printed' = Append(printed, Report("spans", group_idx, 0))
                   /\ first_idx' = MinOf(indices)
                   /\ IF HasElementBefore(MinOf(indices))
                      THEN /\ line_breaks_added' = 0
                           /\ pc' = "while"
                           /\ group_idx' = group_idx
                      ELSE /\ line_breaks_added' = line_breaks_added
                           /\ pc' = pc
                           /\ group_idx' = group_idx + 1
              ELSE /\ printed' = printed
                   /\ first_idx' = first_idx
                   /\ line_breaks_added' = line_breaks_added
                   /\ pc' = pc
                   /\ group_idx' = group_idx + 1
    /\ UNCHANGED <<prog, nodes, body, all_elements, i, groups, current_list_count,
                   element_pages, total_line_breaks_added, saved,
                   visualVars, callVars>>

\* lines 441-468: one pass of the while loop: insert, re-estimate, re-resolve
InsertAttempt ==
    /\ prog = "script" /\ pc = "while"
    /\ MayAttempt(line_breaks_added)
    /\ LET group == At(groups, group_idx)
           insert_after_idx == first_idx - 1 + line_breaks_added
           after == _insert_line_break_after(body, all_elements, nodes, insert_after_idx)
       IN  /\ body' = after.body
           /\ all_elements' = after.all_elements
           /\ nodes' = after.nodes
           /\ line_breaks_added' = line_breaks_added + 1
           /\ total_line_breaks_added' = total_line_breaks_added + 1
           /\ element_pages' = _calculate_page_positions(all_elements)'
           /\ group_indices' = IndicesOf(all_elements', group)
           /\ IF GroupFixed(element_pages', group_indices')
              THEN /\ printed' = Append(printed,
                                        Report("fixed", group_idx, line_breaks_added'))
                   /\ pc' = "after"
              ELSE /\ printed' = Append(printed,
                                        Report("still", group_idx, line_breaks_added'))
                   /\ pc' = pc
    /\ UNCHANGED <<prog, i, groups, current_list_count, group_idx, first_idx, saved,
                   visualVars, callVars>>

\* line 441: the while condition fails
WhileExit ==
    /\ prog = "script" /\ pc = "while"
    /\ ~MayAttempt(line_breaks_added)
    /\ pc' = "after"
    /\ UNCHANGED <<prog, nodes, body, all_elements, i, groups, current_list_count,
                   element_pages, total_line_breaks_added, group_idx, group_indices,
                   first_idx, line_breaks_added, printed, saved,
                   visualVars, callVars>>

\* lines 470-471: after the while loop, then the next group
AfterLoop ==
    /\ prog = "script" /\ pc = "after"
    /\ printed' = IF Exhausted(line_breaks_added)
                  THEN Append(printed, Report("warning", group_idx, max_attempts))
                  ELSE printed
    /\ group_idx' = group_idx + 1
    /\ pc' = "check"
    /\ UNCHANGED <<prog, nodes, body, all_elements, i, groups, current_list_count,
                   element_pages, total_line_breaks_added, group_indices, first_idx,
                   line_breaks_added, saved,
                   visualVars, callVars>>

\* lines 473-489: the for loop ends, the document is written
SaveDocument ==
    /\ prog = "script" /\ pc = "check"
    /\ group_idx >= Len(groups)
    /\ saved' = body
    /\ pc' = "done"
    /\ UNCHANGED <<prog, nodes, body, all_elements, i, groups, current_list_count,
                   element_pages, total_line_breaks_added, group_idx, group_indices,
                   first_idx, line_breaks_added, printed,
                   visualVars, callVars>>

NextScript ==
    \/ GroupingStep
    \/ CalculatePages
    \/ CheckGroup
    \/ InsertAttempt
    \/ WhileExit
    \/ AfterLoop
    \/ SaveDocument

Spec == InitScript /\ [][NextScript]_vars

\* the script cannot stop short of its end: every step it can take, it takes
FairSpec == Spec /\ WF_vars(NextScript)

----------------------------------------------------------------------------
(* visual_approach.py: the groups of the document are extracted by a sliding
   window over the element types, the original file is rendered to pages, and
   a group is reported as split when its members are found on more than one
   rendered page. *)

\* variant: the list test comes before the paragraph test
_get_element_type_list_first(element) ==
    IF _is_heading(element) THEN "heading"
    ELSE IF _is_list_item(element) THEN "list"
    ELSE IF _is_paragraph(element) THEN "paragraph"
    ELSE "None"

\* 'heading', 'paragraph', 'list' or None
_get_element_type(element) ==
    IF _is_heading(element) THEN "heading"
    ELSE IF _is_paragraph(element) THEN "paragraph"
    ELSE IF _is_list_item(element) THEN "list"
    ELSE "None"

KindType == [k \in DOMAIN Catalog |-> _get_element_type(Catalog[k])]

\* variant: the elements of no type are dropped from the window before it is
\* compared with the patterns
_match_pattern_filtered(window_types) ==
    LET typed == SelectSeq(window_types, LAMBDA t : t # "None")
        hits == {k \in DOMAIN G : G[k].types = typed}
    IN  IF hits = {} THEN <<>>
        ELSE <<G[CHOOSE k \in hits : \A m \in hits : k <= m].name>>

\* <<pattern_name>> for the first pattern, in catalog order, equal to the
\* window's types; <<>> when no pattern matches.  G is the module's
\* GROUP_PATTERNS as it stands when the function runs.
_match_pattern(window_types) ==
    LET hits == {k \in DOMAIN G : G[k].types = window_types}
    IN  IF hits = {} THEN <<>>
        ELSE <<G[CHOOSE k \in hits : \A m \in hits : k <= m].name>>

\* L: the length of the longest pattern
L ==
    CHOOSE n \in {Len(G[k].types) : k \in DOMAIN G} :
        \A k \in DOMAIN G : Len(G[k].types) <= n

\* the group recorded for the window of j + 1 elements from index ia (the source's i)
Group(elements, pattern_name, group_index, ia, j) ==
    [type |-> pattern_name,
     group_index |-> group_index,
     doc_indices |-> [k \in 1..(j + 1) |-> ia + k - 1],
     elements |-> [k \in 1..(j + 1) |-> At(elements, ia + k - 1)]]

\* the types of the window of j + 1 elements from index ia
WindowTypes(elements, ia, j) ==
    [k \in 1..(j + 1) |-> KindType[nodes[At(elements, ia + k - 1)]]]

\* The two loops of extract_groups from start ia and window size j + 1 on;
\* found is P so far and count is len(P).  After a match the inner loop goes
\* on with the next smaller window, and the outer loop with the next start.
RECURSIVE ExtractLoop(_, _, _, _, _)
ExtractLoop(elements, ia, j, found, count) ==
    IF ia >= Len(elements) THEN found
    ELSE IF j < 0 THEN ExtractLoop(elements, ia + 1, L - 1, found, count)
    ELSE IF ia + j >= Len(elements) THEN ExtractLoop(elements, ia, j - 1, found, count)
    ELSE IF _match_pattern(WindowTypes(elements, ia, j)) = <<>>
         THEN ExtractLoop(elements, ia, j - 1, found, count)
         ELSE ExtractLoop(elements, ia, j - 1,
                  Append(found,
                         Group(elements, _match_pattern(WindowTypes(elements, ia, j))[1],
                               count, ia, j)),
                  count + 1)

\* variant: an element belongs to one group at most, the first that took it
extract_groups_disjoint(elements) ==
    LET found == ExtractLoop(elements, 0, L - 1, <<>>, 0)
    IN  SelectSeq(found,
            LAMBDA g : \A h \in Range(found) :
                h.group_index < g.group_index =>
                    Range(h.doc_indices) \cap Range(g.doc_indices) = {})

\* variant: a start position emits its first group only
extract_groups_greedy(elements) ==
    LET found == ExtractLoop(elements, 0, L - 1, <<>>, 0)
    IN  SelectSeq(found,
            LAMBDA g : \A h \in Range(found) :
                h.group_index < g.group_index => h.doc_indices[1] # g.doc_indices[1])

extract_groups(elements) == ExtractLoop(elements, 0, L - 1, <<>>, 0)

\* remove_empty_elements: every element whose text is blank leaves the body
\* and the returned list
remove_empty_elements(b, elements) ==
    LET elements_to_remove == {e \in Range(elements) : KindIsEmpty[nodes[e]]}
    IN  [body |-> SelectSeq(b, LAMBDA e : e \notin elements_to_remove),
         all_elements |-> SelectSeq(elements, LAMBDA e : e \notin elements_to_remove)]

\* get_overlapped_words on the two word lists: the longest run of words of
\* words_A that is also a run of words of words_B; among the runs of that
\* length, the one found first, starts scanned in order
RunLength(words_A, words_B, ia, j) ==
    LET limit == IF Len(words_A) - ia <= Len(words_B) - j
                 THEN Len(words_A) - ia ELSE Len(words_B) - j
    IN  CHOOSE c \in 0..limit :
            /\ \A t \in 1..c : words_A[ia + t] = words_B[j + t]
            /\ c = limit \/ words_A[ia + c + 1] # words_B[j + c + 1]

OverlapOfWords(words_A, words_B) ==
    LET lengths == {RunLength(words_A, words_B, ia, j) :
                        ia \in 0..(Len(words_A) - 1), j \in 0..(Len(words_B) - 1)}
    IN  IF lengths \subseteq {0} THEN <<>>
        ELSE LET max_overlap_length == CHOOSE c \in lengths : \A d \in lengths : d <= c
                 ia == CHOOSE a \in 0..(Len(words_A) - 1) :
                         /\ \E j \in 0..(Len(words_B) - 1) :
                                RunLength(words_A, words_B, a, j) = max_overlap_length
                         /\ \A a2 \in 0..(a - 1) : \A j \in 0..(Len(words_B) - 1) :
                                RunLength(words_A, words_B, a2, j) < max_overlap_length
             IN  SubSeq(words_A, ia + 1, ia + max_overlap_length)

\* the two sentences are lowercased and split once each
get_overlapped_words(A, B) ==
    CHOOSE max_overlap_words \in
        {OverlapOfWords(words_A, words_B) :
            words_A \in {Split(Lower(A))}, words_B \in {Split(Lower(B))}} : TRUE

\* The loop of _find_exact_match from page k (1-based) on: <<page_num>> of
\* the first page whose normalized text contains the element's, <<>> for None.
RECURSIVE FindLoop(_, _, _)
FindLoop(elem_text_normalized, pages, k) ==
    IF k > Len(pages) THEN <<>>
    ELSE IF Contains(Normalize(pages[k].all_text), elem_text_normalized)
         THEN <<pages[k].page_num>>
         ELSE FindLoop(elem_text_normalized, pages, k + 1)

\* variant: the last page containing the text, not the first
RECURSIVE FindLoopBack(_, _, _)
FindLoopBack(elem_text_normalized, pages, k) ==
    IF k < 1 THEN <<>>
    ELSE IF Contains(Normalize(pages[k].all_text), elem_text_normalized)
         THEN <<pages[k].page_num>>
         ELSE FindLoopBack(elem_text_normalized, pages, k - 1)

_find_last_match(elem_text_normalized, pages) ==
    FindLoopBack(elem_text_normalized, pages, Len(pages))

_find_exact_match(elem_text_normalized, pages) ==
    FindLoop(elem_text_normalized, pages, 1)

min_word_overlap == 6

\* The loop of _detect_partial_split from page k on.  first_chunk is <<>>
\* for None and <<chunk>> otherwise; the result is <<>> for None and the two
\* page numbers otherwise.  overlapped_words is the run found on page k.
PartialStep(elem_text_normalized, pages, k, first_chunk, first_page_num, overlapped_words) ==
    IF Len(overlapped_words) > min_word_overlap
    THEN IF first_chunk = <<>>
         THEN [done |-> FALSE, result |-> <<>>,
               first_chunk |-> <<Join(overlapped_words)>>,
               first_page_num |-> pages[k].page_num]
         ELSE IF Contains(CollapseSpaces(Strip(first_chunk[1] \o <<" ">> \o
                                               Join(overlapped_words))),
                          elem_text_normalized)
              THEN [done |-> TRUE, result |-> <<first_page_num, pages[k].page_num>>,
                    first_chunk |-> first_chunk, first_page_num |-> first_page_num]
              ELSE [done |-> FALSE, result |-> <<>>,
                    first_chunk |-> first_chunk, first_page_num |-> first_page_num]
    ELSE [done |-> FALSE, result |-> <<>>,
          first_chunk |-> first_chunk, first_page_num |-> first_page_num]

RECURSIVE PartialLoop(_, _, _, _, _)
PartialLoop(elem_text_normalized, pages, k, first_chunk, first_page_num) ==
    IF k > Len(pages) THEN <<>>
    ELSE CHOOSE result \in
            {IF step.done THEN step.result
             ELSE PartialLoop(elem_text_normalized, pages, k + 1,
                              step.first_chunk, step.first_page_num) :
                step \in {PartialStep(elem_text_normalized, pages, k, first_chunk,
                                      first_page_num,
                                      get_overlapped_words(elem_text_normalized,
                                          Normalize(pages[k].all_text)))}} : TRUE

_detect_partial_split(elem_text_normalized, pages) ==
    PartialLoop(elem_text_normalized, pages, 1, <<>>, 0)

\* the normalized text of each kind of element
KindNormalized == [k \in DOMAIN Catalog |-> Normalize(Catalog[k].text)]

\* lines 462-487: what one member adds to pages_for_group: nothing when its
\* text is blank, the page of the exact match when there is one, else the two
\* pages of the partial split when there is one, else nothing
MemberPages(pdf, elem) ==
    IF KindIsEmpty[nodes[elem]] THEN <<>>
    ELSE LET found_page == _find_exact_match(KindNormalized[nodes[elem]], pdf.pages)
         IN  IF found_page # <<>> /\ found_page # <<0>>
             THEN found_page
             ELSE _detect_partial_split(KindNormalized[nodes[elem]], pdf.pages)

RECURSIVE Flatten(_)
Flatten(lists) ==
    IF lists = <<>> THEN <<>> ELSE Head(lists) \o Flatten(Tail(lists))

\* pages_for_group at the end of the inner loop of detect_split_groups
PagesForGroup(pdf, group, elements) ==
    Flatten([m \in DOMAIN group.doc_indices |->
                MemberPages(pdf, At(elements, group.doc_indices[m]))])

\* variant: the list of recorded pages is counted, not the set
IsSplit_ListLength(pages) == Len(pages) > 1

\* lines 489-492: len(set(pages_for_group)) > 1
IsSplit(pages) == Cardinality(Range(pages)) > 1

\* variant: the record carries the pages as they were recorded
SplitRecord_AsRecorded(group, pages) ==
    [type |-> group.type,
     group_index |-> group.group_index,
     doc_indices |-> group.doc_indices,
     elements |-> group.elements,
     split_reason |-> pages]

\* the record appended to W: the group and the sorted distinct pages
SplitRecord(group, pages) ==
    [type |-> group.type,
     group_index |-> group.group_index,
     doc_indices |-> group.doc_indices,
     elements |-> group.elements,
     split_reason |-> SortedSeq(Range(pages))]

\* The outer loop of detect_split_groups from group g (1-based) on; recorded
\* holds pages_for_group of each group and split is W so far.
RECURSIVE DetectLoop(_, _, _, _)
DetectLoop(extracted, recorded, g, split) ==
    IF g > Len(extracted) THEN split
    ELSE IF IsSplit(recorded[g])
         THEN DetectLoop(extracted, recorded, g + 1,
                         Append(split, SplitRecord(extracted[g], recorded[g])))
         ELSE DetectLoop(extracted, recorded, g + 1, split)

----------------------------------------------------------------------------
(* The rendering of the file.  The renderer is outside the program: it lays
   the words of the elements of the input file out in document order and
   breaks them into pages; extract_pdf_data joins the spans of a page with one
   space.  A page break falls before an element or inside one. *)

MaxVisualLen == 3
MaxCuts == 1

\* the kinds of element of the documents visual_approach.py is run on
VisualKinds == {1, 2, 8, 9}

\* where inside an element a page break may fall: after this many words
CutOffsets == {2, 8, 14}

VisualDocuments == UNION {[1..n -> VisualKinds] : n \in 0..MaxVisualLen}

KindWords == [k \in VisualKinds |-> Split(Catalog[k].text)]

\* the words of the input file, in order
FileWords(nds) == Flatten([k \in DOMAIN nds |-> KindWords[nds[k]]])

\* the word positions at which a page may end
CutPoints(nds) ==
    {Len(FileWords(SubSeq(nds, 1, k - 1))) + off :
        k \in {m \in DOMAIN nds : KindWords[nds[m]] # <<>>},
        off \in {0} \cup CutOffsets} \cap 1..(Len(FileWords(nds)) - 1)

CutSets(nds) == {C \in SUBSET CutPoints(nds) : Cardinality(C) <= MaxCuts}

\* extract_pdf_data on the rendering with the page ends C: page numbers
\* start at 1, the text of a page is its spans joined by one space
PagesOf(words, ends) ==
    [p \in DOMAIN ends |->
        [page_num |-> p,
         all_text |-> Join(SubSeq(words, (IF p = 1 THEN 0 ELSE ends[p - 1]) + 1,
                                  ends[p]))]]

extract_pdf_data(nds, C) ==
    [pages |-> PagesOf(FileWords(nds), SortedSeq(C \cup {Len(FileWords(nds))}))]

----------------------------------------------------------------------------
(* The main flow of visual_approach.py. *)

InitVisual ==
    /\ prog = "visual"
    /\ pc = "cleanup"
    /\ nodes \in VisualDocuments
    /\ body = [k \in DOMAIN nodes |-> k]
    /\ all_elements = body
    /\ i = 0
    /\ groups = <<>>
    /\ current_list_count = 0
    /\ element_pages = <<>>
    /\ total_line_breaks_added = 0
    /\ group_idx = 0
    /\ group_indices = <<>>
    /\ first_idx = 0
    /\ line_breaks_added = 0
    /\ printed = <<>>
    /\ saved = <<>>
    /\ P = <<>>
    /\ V = [pages |-> <<>>]
    /\ W = <<>>
    /\ pages_for_group = <<>>
    /\ G = GROUP_PATTERNS
    /\ uploaded = <<>>
    /\ arg_element = _create_empty_paragraph
    /\ arg_next_element = <<>>
    /\ arg_current_index = 0
    /\ returned = <<>>

\* line 670: all_elements = remove_empty_elements(body, all_elements, namespaces)
RemoveEmptyElements ==
    /\ prog = "visual" /\ pc = "cleanup"
    /\ body' = remove_empty_elements(body, all_elements).body
    /\ all_elements' = remove_empty_elements(body, all_elements).all_elements
    /\ pc' = "extract"
    /\ UNCHANGED <<prog, nodes, scriptVars, visualVars, callVars>>

\* line 673: P = extract_groups(all_elements, namespaces)
ExtractGroups ==
    /\ prog = "visual" /\ pc = "extract"
    /\ P' = extract_groups(all_elements)
    /\ pc' = "generate"
    /\ UNCHANGED <<prog, nodes, body, all_elements, scriptVars, V, W, pages_for_group,
                   G, uploaded, callVars>>

\* the elements of the file at docx_path: the program never writes it, and
\* creates no element, so they are the elements the run started with
DocxFile == [k \in DOMAIN nodes |-> k]

\* line 712: generate_pdf(docx_path, pdf_path).  The upload, the export or the
\* credentials can fail; nothing catches the exception.
GeneratePdf ==
    /\ prog = "visual" /\ pc = "generate"
    /\ \/ /\ uploaded' = DocxFile
          /\ pc' = "extract_pdf"
       \/ /\ uploaded' = uploaded
          /\ pc' = "crashed"
    /\ UNCHANGED <<prog, nodes, body, all_elements, scriptVars, P, V, W, pages_for_group,
                   G, callVars>>

\* the kinds of the elements of the uploaded file, in order
UploadedKinds == [k \in DOMAIN uploaded |-> nodes[uploaded[k]]]

\* line 715: V = extract_pdf_data(pdf_path): the pages of the rendering of the
\* uploaded file.  Opening or reading the PDF can fail; nothing catches the
\* exception.
ExtractPdfData ==
    /\ prog = "visual" /\ pc = "extract_pdf"
    /\ \/ /\ \E C \in CutSets(UploadedKinds) : V' = extract_pdf_data(UploadedKinds, C)
          /\ pc' = "detect"
       \/ /\ V' = V
          /\ pc' = "crashed"
    /\ UNCHANGED <<prog, nodes, body, all_elements, scriptVars, P, W, pages_for_group,
                   G, uploaded, callVars>>

\* line 718: W = detect_split_groups(V, P, all_elements, namespaces)
DetectSplitGroups ==
    /\ prog = "visual" /\ pc = "detect"
    /\ pages_for_group' = [g \in DOMAIN P |-> PagesForGroup(V, P[g], all_elements)]
    /\ W' = DetectLoop(P, pages_for_group', 1, <<>>)
    /\ pc' = "done"
    /\ UNCHANGED <<prog, nodes, body, all_elements, scriptVars, P, V, G, uploaded,
                   callVars>>

NextVisual ==
    \/ RemoveEmptyElements
    \/ ExtractGroups
    \/ GeneratePdf
    \/ ExtractPdfData
    \/ DetectSplitGroups

SpecVisual == InitVisual /\ [][NextVisual]_vars

----------------------------------------------------------------------------
(* extract_groups under other pattern catalogs.  GROUP_PATTERNS is the
   configuration of the extraction; the run goes from the cleanup to the end
   of phase 1. *)

\* the catalogs: the one of the source, one with a pattern that is the start
\* of another, one with a pattern of three elements
PatternCatalogs ==
    { GROUP_PATTERNS,
      << [name |-> "heading+paragraph", types |-> <<"heading", "paragraph">>],
         [name |-> "heading", types |-> <<"heading">>],
         [name |-> "paragraph", types |-> <<"paragraph">>] >>,
      << [name |-> "heading+paragraph+list",
          types |-> <<"heading", "paragraph", "list">>],
         [name |-> "paragraph", types |-> <<"paragraph">>] >> }

\* the kinds of element of the documents the extraction is run on
ExtractKinds == {1, 2, 8, 9, 10, 11}

InitExtract ==
    /\ prog = "visual"
    /\ pc = "cleanup"
    /\ nodes \in UNION {[1..n -> ExtractKinds] : n \in 0..MaxVisualLen}
    /\ body = [k \in DOMAIN nodes |-> k]
    /\ all_elements = body
    /\ i = 0
    /\ groups = <<>>
    /\ current_list_count = 0
    /\ element_pages = <<>>
    /\ total_line_breaks_added = 0
    /\ group_idx = 0
    /\ group_indices = <<>>
    /\ first_idx = 0
    /\ line_breaks_added = 0
    /\ printed = <<>>
    /\ saved = <<>>
    /\ P = <<>>
    /\ V = [pages |-> <<>>]
    /\ W = <<>>
    /\ pages_for_group = <<>>
    /\ G \in PatternCatalogs
    /\ uploaded = <<>>
    /\ arg_element = _create_empty_paragraph
    /\ arg_next_element = <<>>
    /\ arg_current_index = 0
    /\ returned = <<>>

NextExtract ==
    \/ RemoveEmptyElements
    \/ ExtractGroups

SpecExtract == InitExtract /\ [][NextExtract]_vars

----------------------------------------------------------------------------
(* Functions of an element called alone: _estimate_element_height and
   _is_last_list_item of script.py, _get_element_type of visual_approach.py.
   The element and its successor are drawn from texts and list properties;
   one call is made and its result kept in returned as <<function, value>>. *)

\* the list id of a list item: None is <<>>, an id n is <<n>>
ListId(element) == IF element.has_numId THEN <<element.numId>> ELSE <<>>

\* the list level of a list item, 0 when w:ilvl is missing
ListLevel(element) == IF element.has_ilvl THEN element.ilvl ELSE 0

\* variant: a next element of the same level also ends the list
_is_last_list_item_same_level(element, next_element) ==
    IF ~element.numPr THEN FALSE
    ELSE IF next_element = <<>> THEN TRUE
    ELSE IF ~next_element[1].numPr THEN TRUE
    ELSE IF ListId(element) # ListId(next_element[1]) THEN TRUE
    ELSE ListLevel(next_element[1]) <= ListLevel(element)

\* script.py lines 96-146; next_element is <<>> for None
_is_last_list_item(element, next_element) ==
    IF ~element.numPr THEN FALSE
    ELSE IF next_element = <<>> THEN TRUE
    ELSE IF ~next_element[1].numPr THEN TRUE
    ELSE IF ListId(element) # ListId(next_element[1]) THEN TRUE
    ELSE ListLevel(next_element[1]) < ListLevel(element)

\* the texts of the elements: empty, blanks only, a short word, a heading
\* text, a text that is heading text and has 15 words, a text of 16 words
\* that is no heading text, and texts of 40, 68 and 100 characters
UnitTexts ==
    { <<>>, <<" ", " ">>, <<"z", "z">>, <<"1", " ", "A", "B">>,
      Catalog[6].text, Catalog[9].text,
      LongText(40, 10), LongText(68, 10), LongText(100, 10) }

\* w:numPr with its w:ilvl and w:numId children: <<numPr, has_ilvl, ilvl,
\* has_numId, numId>>
ListProperties ==
    { <<FALSE, FALSE, 0, FALSE, 0>>,
      <<TRUE, FALSE, 0, FALSE, 0>>,
      <<TRUE, FALSE, 0, TRUE, 1>>,
      <<TRUE, TRUE, 0, TRUE, 1>>,
      <<TRUE, TRUE, 1, TRUE, 1>>,
      <<TRUE, TRUE, 2, TRUE, 1>>,
      <<TRUE, TRUE, 1, TRUE, 2>>,
      <<TRUE, TRUE, 1, FALSE, 0>> }

Units == {Element("p", t, l[1], l[2], l[3], l[4], l[5]) : t \in UnitTexts, l \in ListProperties}

NextUnits == {<<>>} \cup {<<Element("p", <<"z", "z">>, l[1], l[2], l[3], l[4], l[5])>> : l \in ListProperties}

InitUnits ==
    /\ prog = "functions"
    /\ pc = "call"
    /\ nodes = <<>>
    /\ body = <<>>
    /\ all_elements = <<>>
    /\ i = 0
    /\ groups = <<>>
    /\ current_list_count = 0
    /\ element_pages = <<>>
    /\ total_line_breaks_added = 0
    /\ group_idx = 0
    /\ group_indices = <<>>
    /\ first_idx = 0
    /\ line_breaks_added = 0
    /\ printed = <<>>
    /\ saved = <<>>
    /\ P = <<>>
    /\ V = [pages |-> <<>>]
    /\ W = <<>>
    /\ pages_for_group = <<>>
    /\ G = GROUP_PATTERNS
    /\ uploaded = <<>>
    /\ arg_element \in Units
    /\ arg_next_element \in NextUnits
    /\ arg_current_index = 0
    /\ returned = <<>>

EstimateElementHeight ==
    /\ prog = "functions" /\ pc = "call"
    /\ returned' = <<"_estimate_element_height", _estimate_element_height(arg_element)>>
    /\ pc' = "returned"
    /\ UNCHANGED <<prog, nodes, body, all_elements, scriptVars, visualVars,
                   arg_element, arg_next_element, arg_current_index>>

GetElementType ==
    /\ prog = "functions" /\ pc = "call"
    /\ returned' = <<"_get_element_type", _get_element_type(arg_element)>>
    /\ pc' = "returned"
    /\ UNCHANGED <<prog, nodes, body, all_elements, scriptVars, visualVars,
                   arg_element, arg_next_element, arg_current_index>>

IsLastListItem ==
    /\ prog = "functions" /\ pc = "call"
    /\ returned' = <<"_is_last_list_item", _is_last_list_item(arg_element, arg_next_element)>>
    /\ pc' = "returned"
    /\ UNCHANGED <<prog, nodes, body, all_elements, scriptVars, visualVars,
                   arg_element, arg_next_element, arg_current_index>>

NextUnitCalls ==
    \/ EstimateElementHeight
    \/ GetElementType
    \/ IsLastListItem

SpecUnits == InitUnits /\ [][NextUnitCalls]_vars

----------------------------------------------------------------------------
(* The two functions of script.py that keep one empty paragraph after an
   element, called alone (their calls in the main loop, lines 387-397, are
   commented out): each is applied to a body, the list of its elements and
   an index of the list, up to MaxApplications times in a row. *)

\* elem.tag.endswith('p'), for the tags of the catalog
IsParagraphTag(tag) == tag = "p"

\* variant of the loop that marks every empty paragraph for removal
RECURSIVE CleanupLoop_KeepNone(_, _, _, _)
CleanupLoop_KeepNone(elements, ia, empty_count, elements_to_remove) ==
    IF ia >= Len(elements) THEN elements_to_remove
    ELSE IF ~IsParagraphTag(Catalog[nodes[elements[ia + 1]]].tag) THEN elements_to_remove
    ELSE IF ~KindIsEmpty[nodes[elements[ia + 1]]] THEN elements_to_remove
    ELSE CleanupLoop_KeepNone(elements, ia + 1, empty_count + 1,
                              Append(elements_to_remove, elements[ia + 1]))

\* lines 165-180: the while loop from index ia (0-based) on; the result is
\* elements_to_remove
RECURSIVE CleanupLoop(_, _, _, _)
CleanupLoop(elements, ia, empty_count, elements_to_remove) ==
    IF ia >= Len(elements) THEN elements_to_remove
    ELSE IF ~IsParagraphTag(Catalog[nodes[elements[ia + 1]]].tag) THEN elements_to_remove
    ELSE IF ~KindIsEmpty[nodes[elements[ia + 1]]] THEN elements_to_remove
    ELSE CleanupLoop(elements, ia + 1, empty_count + 1,
                     IF empty_count + 1 > 1
                     THEN Append(elements_to_remove, elements[ia + 1])
                     ELSE elements_to_remove)

\* lines 149-191; the result has the body, the list and the returned count
_cleanup_excess_empty_paragraphs(b, elements, current_index) ==
    LET elements_to_remove == CleanupLoop(elements, current_index + 1, 0, <<>>)
        removed == Range(elements_to_remove)
    IN  [body |-> SelectSeq(b, LAMBDA e : e \notin removed),
         all_elements |-> SelectSeq(elements, LAMBDA e : e \notin removed),
         nodes |-> nodes,
         returned |-> Len(elements_to_remove)]

\* lines 193-224; the result has the body, the list, the elements that
\* exist and the returned string
_ensure_single_empty_paragraph_after(b, elements, current_index) ==
    IF current_index + 1 < Len(elements)
    THEN IF KindIsEmpty[nodes[elements[current_index + 2]]]
         THEN LET cleaned == _cleanup_excess_empty_paragraphs(b, elements, current_index)
              IN  [cleaned EXCEPT !.returned = "cleaned"]
         ELSE LET new_empty == Len(nodes) + 1
              IN  [body |-> InsertAt(b, current_index + 1, new_empty),
                   all_elements |-> InsertAt(elements, current_index + 1, new_empty),
                   nodes |-> Append(nodes, EmptyKind),
                   returned |-> "added"]
    ELSE [body |-> b, all_elements |-> elements, nodes |-> nodes, returned |-> "none"]

MaxBlankLen == 4
MaxApplications == 2

\* an empty paragraph, a paragraph of blanks, a paragraph of text and an
\* element without text that is no paragraph
BlankKinds == {1, 8, 11, 12}

InitBlank ==
    /\ prog = "blank"
    /\ pc = "call"
    /\ nodes \in UNION {[1..n -> BlankKinds] : n \in 1..MaxBlankLen}
    /\ body = [k \in DOMAIN nodes |-> k]
    /\ all_elements = body
    /\ i = 0
    /\ groups = <<>>
    /\ current_list_count = 0
    /\ element_pages = <<>>
    /\ total_line_breaks_added = 0
    /\ group_idx = 0
    /\ group_indices = <<>>
    /\ first_idx = 0
    /\ line_breaks_added = 0
    /\ printed = <<>>
    /\ saved = <<>>
    /\ P = <<>>
    /\ V = [pages |-> <<>>]
    /\ W = <<>>
    /\ pages_for_group = <<>>
    /\ G = GROUP_PATTERNS
    /\ uploaded = <<>>
    /\ arg_element = _create_empty_paragraph
    /\ arg_next_element = <<>>
    /\ arg_current_index \in 0..(Len(nodes) - 1)
    /\ returned = <<>>

\* returned keeps the calls made so far as <<function, returned value>>
CleanupExcessEmptyParagraphs ==
    /\ prog = "blank" /\ pc = "call"
    /\ Len(returned) < MaxApplications
    /\ LET after == _cleanup_excess_empty_paragraphs(body, all_elements, arg_current_index)
       IN  /\ body' = after.body
           /\ all_elements' = after.all_elements
           /\ nodes' = after.nodes
           /\ returned' = Append(returned, <<"_cleanup_excess_empty_paragraphs", after.returned>>)
    /\ UNCHANGED <<prog, pc, scriptVars, visualVars,
                   arg_element, arg_next_element, arg_current_index>>

EnsureSingleEmptyParagraphAfter ==
    /\ prog = "blank" /\ pc = "call"
    /\ Len(returned) < MaxApplications
    /\ LET after == _ensure_single_empty_paragraph_after(body, all_elements, arg_current_index)
       IN  /\ body' = after.body
           /\ all_elements' = after.all_elements
           /\ nodes' = after.nodes
           /\ returned' = Append(returned, <<"_ensure_single_empty_paragraph_after", after.returned>>)
    /\ UNCHANGED <<prog, pc, scriptVars, visualVars,
                   arg_element, arg_next_element, arg_current_index>>

NextBlank ==
    \/ CleanupExcessEmptyParagraphs
    \/ EnsureSingleEmptyParagraphAfter

SpecBlank == InitBlank /\ [][NextBlank]_vars

----------------------------------------------------------------------------
(* Properties of the reflow loop of script.py. *)

\* the pages a fresh estimate gives the members of a group, each member
\* found by identity
EstimatedPagesOf(group) ==
    LET pages == _calculate_page_positions(all_elements)
    IN  {pages[k] : k \in {m \in DOMAIN all_elements : all_elements[m] \in Range(group)}}

CurrentGroup == At(groups, group_idx)

\* the 0-based index of the first member of a group in all_elements
FirstMemberIndex(group) ==
    (CHOOSE k \in DOMAIN all_elements :
        /\ all_elements[k] \in Range(group)
        /\ \A m \in 1..(k - 1) : all_elements[m] \notin Range(group)) - 1

\* the number of elements of the document as it was parsed
OriginalLen == Len(nodes) - total_line_breaks_added

\* C1: inside the reflow loop of a split group, line_breaks_added counts the
\* inserts made for it from 0; an insert is made only while the estimator
\* still splits the group; and the first insert (the N-th, N < 10) after
\* which the estimator puts all members on one page ends the loop: success
\* is reported with N, no warning follows, and the next step moves to the
\* next group without another insert.
C1_StopsAtFirstFix ==
    [][ /\ (pc # "while" /\ pc' = "while") => line_breaks_added' = 0
        /\ (Len(nodes') # Len(nodes)) =>
              /\ pc = "while"
              /\ Len(nodes') = Len(nodes) + 1
              /\ Cardinality(EstimatedPagesOf(CurrentGroup)) > 1
              /\ line_breaks_added' = line_breaks_added + 1
              /\ group_idx' = group_idx
              /\ (/\ Cardinality(EstimatedPagesOf(CurrentGroup)') = 1
                  /\ line_breaks_added' < max_attempts)
                 => /\ pc' = "after"
                    /\ printed' = Append(printed,
                                     Report("fixed", group_idx, line_breaks_added'))
        /\ (pc = "after") =>
              /\ Len(nodes') = Len(nodes)
              /\ group_idx' = group_idx + 1
              /\ pc' = "check"
              /\ line_breaks_added < max_attempts => printed' = printed
      ]_vars

\* C1 happens: a group was fixed by its 2nd to 9th insert and the run ended
C1_Witness ==
    /\ pc = "done"
    /\ \E k \in DOMAIN printed :
          printed[k].msg = "fixed" /\ printed[k].n \in 2..(max_attempts - 1)

\* a group estimated as split whose first member is at index 0 of the list
SplitAtDocumentStart(group) ==
    /\ Cardinality(EstimatedPagesOf(group)) > 1
    /\ FirstMemberIndex(group) = 0

\* C3 as stated: once the reflow loop has passed a group that the estimator
\* splits and whose first member is at position 0, a blank unit has been
\* inserted at the start of the document.
C3_InsertsAtDocumentStart ==
    (pc = "check" /\ group_idx > 0 /\ SplitAtDocumentStart(At(groups, group_idx - 1)))
        => (body # <<>> /\ body[1] > OriginalLen)

\* C3 amended: for a group estimated as split whose first member is at
\* position 0 the span is reported and nothing else is done: no blank unit
\* is inserted, the corrective loop is not run, neither success nor failure
\* is reported, and the next group is taken.
C3_NoInsertAtDocumentStart ==
    [][ (/\ pc = "check" /\ group_idx < Len(groups)
         /\ SplitAtDocumentStart(CurrentGroup))
        => /\ body' = body /\ all_elements' = all_elements /\ nodes' = nodes
           /\ printed' = Append(printed, Report("spans", group_idx, 0))
           /\ pc' = "check"
           /\ group_idx' = group_idx + 1
      ]_vars

\* C3 happens: the loop has just passed a split group that starts at index 0
C3_Witness ==
    /\ pc = "check" /\ group_idx > 0
    /\ SplitAtDocumentStart(At(groups, group_idx - 1))
    /\ printed # <<>>
    /\ printed[Len(printed)] = Report("spans", group_idx - 1, 0)

\* C4: in the reflow loop of a group, after k inserts the k newest elements
\* are empty paragraphs that sit, one after the other, right before the
\* group's first member, where the first of them took the place the first
\* member had; the members themselves stay adjacent and group_indices holds
\* their current indices; body and all_elements stay the same list; and
\* every insert puts the new element immediately before the first member.
C4_BlanksDirectlyBeforeGroup ==
    [][ /\ (pc' \in {"while", "after"}) =>
              LET k == line_breaks_added'
                  f == FirstMemberIndex(CurrentGroup)'
                  members == {m \in DOMAIN all_elements' :
                                 all_elements'[m] \in Range(CurrentGroup')}
              IN  /\ body' = all_elements'
                  /\ f = first_idx' + k
                  /\ \A j \in 1..k :
                        /\ all_elements'[f + 1 - j] > Len(nodes') - k
                        /\ KindIsEmpty[nodes'[all_elements'[f + 1 - j]]]
                  /\ members = (f + 1)..(f + Len(CurrentGroup'))
                  /\ Range(group_indices') = {m - 1 : m \in members}
        /\ (Len(nodes') # Len(nodes)) =>
              At(all_elements', FirstMemberIndex(CurrentGroup)' - 1) = Len(nodes')
      ]_vars

\* C4 happens: three inserts were made for a group that does not start the
\* document
C4_Witness ==
    /\ pc = "while" /\ line_breaks_added = 3
    /\ FirstMemberIndex(CurrentGroup) = first_idx + 3

\* C5: no group gets more than max_attempts inserts, the inserted blank
\* units number at most max_attempts times the number of groups, and the
\* script reaches its end (or the uncaught error of the grouping loop).
C5_ReflowTerminates ==
    /\ [](/\ line_breaks_added <= max_attempts
          /\ total_line_breaks_added <= max_attempts * Len(groups)
          /\ Len(body) <= OriginalLen + max_attempts * Len(groups)
          /\ (pc \in {"check", "while", "after", "done"}) =>
                total_line_breaks_added <= max_attempts * group_idx + line_breaks_added)
    /\ <>(pc \in {"done", "crashed"})

\* C5 happens: a run ended after a loop that used all its attempts
C5_Witness ==
    /\ pc = "done"
    /\ total_line_breaks_added >= max_attempts

\* C6: when the loop of a group ends with the group still split after
\* max_attempts inserts, the warning is printed for it, the document keeps
\* every element it has (the inserted blank units included), and the next
\* group is taken; no step ever removes an element from the body.
C6_ExhaustionKeepsBreaks ==
    [][ /\ Range(body) \subseteq Range(body')
        /\ Len(body') >= Len(body)
        /\ (/\ pc = "after"
            /\ line_breaks_added = max_attempts
            /\ Cardinality(EstimatedPagesOf(CurrentGroup)) > 1)
           => /\ printed' = Append(printed, Report("warning", group_idx, max_attempts))
              /\ body' = body
              /\ all_elements' = all_elements
              /\ pc' = "check"
              /\ group_idx' = group_idx + 1
      ]_vars

\* C6 happens: a warning was printed for a group, a later group was checked
\* after it, and the saved document holds the blank units
C6_Witness ==
    /\ pc = "done"
    /\ \E k \in DOMAIN printed :
          /\ printed[k].msg = "warning"
          /\ printed[k].group + 1 < Len(groups)
    /\ Len(saved) >= OriginalLen + max_attempts

----------------------------------------------------------------------------
(* Properties of the split detection of visual_approach.py. *)

\* the split detection has run
Detected == prog = "visual" /\ pc = "done"

\* the normalized text of the page contains the normalized text of the element
PageContains(page, elem) ==
    Contains(Normalize(page.all_text), KindNormalized[nodes[elem]])

\* the numbers of the rendered pages containing the element's text
ContainingPages(elem) ==
    {V.pages[k].page_num : k \in {m \in DOMAIN V.pages : PageContains(V.pages[m], elem)}}

NonEmptyMembers(group) == {e \in Range(group.elements) : ~KindIsEmpty[nodes[e]]}

\* the group is in W
Flagged(group) == \E w \in DOMAIN W : W[w].group_index = group.group_index

\* C2 as stated: a group whose non-empty members' normalized texts are all
\* substrings of the normalized text of one same rendered page is not put in
\* W, whatever the rendered pages are.
C2_SamePageNeverFlagged ==
    Detected =>
        \A g \in DOMAIN P :
            (\E k \in DOMAIN V.pages :
                \A e \in NonEmptyMembers(P[g]) : PageContains(V.pages[k], e))
            => ~Flagged(P[g])

\* C2, restricted: a group whose non-empty members' normalized texts are all
\* substrings of the normalized text of one same rendered page is not put in
\* W, provided no earlier page contains the normalized text of a member.
C2_SameFirstPageNeverFlagged ==
    Detected =>
        \A g \in DOMAIN P :
            (\E k \in DOMAIN V.pages :
                /\ \A e \in NonEmptyMembers(P[g]) : PageContains(V.pages[k], e)
                /\ \A m \in 1..(k - 1) :
                       \A e \in NonEmptyMembers(P[g]) : ~PageContains(V.pages[m], e))
            => ~Flagged(P[g])

\* a group of two members, both on the second page and on no other, has been
\* examined and left out of W
C2_Witness ==
    /\ Detected
    /\ \E g \in DOMAIN P :
           /\ Cardinality(NonEmptyMembers(P[g])) = 2
           /\ \A e \in NonEmptyMembers(P[g]) : ContainingPages(e) = {2}
           /\ ~Flagged(P[g])

\* the number of members of the group for which pred holds, a member counted
\* as often as it occurs
CountMembers(group, pred(_)) ==
    Cardinality({m \in DOMAIN group.elements : pred(group.elements[m])})

ExactlyMatched(elem) ==
    ~KindIsEmpty[nodes[elem]] /\ ContainingPages(elem) # {}

PartiallyMatched(elem) ==
    /\ ~KindIsEmpty[nodes[elem]]
    /\ ContainingPages(elem) = {}
    /\ _detect_partial_split(KindNormalized[nodes[elem]], V.pages) # <<>>

\* the groups of P with more than one distinct recorded page, in the order of P
RECURSIVE GroupsOnSeveralPages(_)
GroupsOnSeveralPages(g) ==
    IF g > Len(P) THEN <<>>
    ELSE (IF Cardinality(Range(pages_for_group[g])) > 1 THEN <<g>> ELSE <<>>)
         \o GroupsOnSeveralPages(g + 1)

\* C7: a group is in W if and only if the pages recorded for its members (one
\* per exactly matched member, two per partially matched member, none for the
\* others) have more than one distinct value; W keeps the order of P, and each
\* record of W is its group with the distinct recorded pages in ascending order.
C7_SplitIffSeveralDistinctPages ==
    Detected =>
        /\ \A g \in DOMAIN P :
               /\ Len(pages_for_group[g]) =
                      CountMembers(P[g], ExactlyMatched)
                      + 2 * CountMembers(P[g], PartiallyMatched)
               /\ Flagged(P[g]) <=> Cardinality(Range(pages_for_group[g])) > 1
        /\ Len(W) = Len(GroupsOnSeveralPages(1))
        /\ \A w \in DOMAIN W :
               LET g == GroupsOnSeveralPages(1)[w]
               IN  /\ W[w].type = P[g].type
                   /\ W[w].group_index = P[g].group_index
                   /\ W[w].doc_indices = P[g].doc_indices
                   /\ W[w].elements = P[g].elements
                   /\ Range(W[w].split_reason) = Range(pages_for_group[g])
                   /\ \A a, b \in DOMAIN W[w].split_reason :
                          a < b => W[w].split_reason[a] < W[w].split_reason[b]

\* a group with an exactly matched and a partially matched member has three
\* recorded pages, two of them equal, and is in W with the two distinct pages
C7_Witness ==
    /\ Detected
    /\ \E g \in DOMAIN P :
           /\ Len(pages_for_group[g]) = 3
           /\ Cardinality(Range(pages_for_group[g])) = 2
           /\ \E w \in DOMAIN W :
                  /\ W[w].group_index = P[g].group_index
                  /\ Len(W[w].split_reason) = 2

\* the longest run of words the element's text shares with page k
LongestRun(elem, k) ==
    get_overlapped_words(KindNormalized[nodes[elem]], Normalize(V.pages[k].all_text))

\* the first fragment, a space and the run of page k contain the element's text
CompletedBy(elem, first, k) ==
    Contains(CollapseSpaces(Strip(Join(LongestRun(elem, first)) \o <<" ">> \o
                                  Join(LongestRun(elem, k)))),
             KindNormalized[nodes[elem]])

\* C8 as stated: for a member no page contains whole, the first page whose
\* longest run has more than 6 words gives the first fragment, and the first
\* later page whose run completes the member's text is recorded with it,
\* whatever the length of that second run.
C8_SecondRunOfAnyLength ==
    Detected =>
        \A e \in Range(all_elements) : \A first, later \in DOMAIN V.pages :
            ( /\ ~KindIsEmpty[nodes[e]]
              /\ ContainingPages(e) = {}
              /\ first < later
              /\ Len(LongestRun(e, first)) > min_word_overlap
              /\ \A k \in 1..(first - 1) : Len(LongestRun(e, k)) <= min_word_overlap
              /\ CompletedBy(e, first, later)
              /\ \A k \in (first + 1)..(later - 1) : ~CompletedBy(e, first, k) )
            => _detect_partial_split(KindNormalized[nodes[e]], V.pages)
                   = <<V.pages[first].page_num, V.pages[later].page_num>>

\* what C9 expects a member to add to the recorded pages of its group
ExpectedPages(elem) ==
    IF KindIsEmpty[nodes[elem]] THEN <<>>
    ELSE IF ContainingPages(elem) # {}
         THEN <<CHOOSE p \in ContainingPages(elem) : \A q \in ContainingPages(elem) : p <= q>>
         ELSE _detect_partial_split(KindNormalized[nodes[elem]], V.pages)

\* C9: a non-empty member some page contains is recorded on the lowest page
\* that contains its normalized text, and on that page alone; the result of
\* the partial-split fallback is recorded only for a member no page contains.
C9_LowestContainingPageFirst ==
    Detected =>
        \A g \in DOMAIN P :
            pages_for_group[g] =
                Flatten([m \in DOMAIN P[g].elements |-> ExpectedPages(P[g].elements[m])])

\* a member whose text is on two pages has been recorded, and so has a member
\* no page contains whole
C9_Witness ==
    /\ Detected
    /\ \E g \in DOMAIN P : \E e \in Range(P[g].elements) :
           /\ Cardinality(ContainingPages(e)) = 2
           /\ pages_for_group[g][1] = 1
    /\ \E g \in DOMAIN P : \E e \in Range(P[g].elements) :
           /\ ContainingPages(e) = {}
           /\ pages_for_group[g] # <<>>

\* the groups have been extracted
Extracted == prog = "visual" /\ pc \in {"generate", "extract_pdf", "detect", "done"}

TypesOf(elements) == [k \in DOMAIN elements |-> KindType[nodes[elements[k]]]]

\* C10: from the types [heading, paragraph, None] exactly two groups are
\* extracted, 'heading+paragraph' at [0, 1] and then 'paragraph' at [1]; and
\* every paragraph directly after a heading is a member of a
\* heading+paragraph group and of a paragraph group of its own.
C10_OverlappingGroupsKept ==
    Extracted =>
        /\ TypesOf(all_elements) = <<"heading", "paragraph", "None">> =>
               P = << [type |-> "heading+paragraph", group_index |-> 0,
                       doc_indices |-> <<0, 1>>,
                       elements |-> <<all_elements[1], all_elements[2]>>],
                      [type |-> "paragraph", group_index |-> 1,
                       doc_indices |-> <<1>>,
                       elements |-> <<all_elements[2]>>] >>
        /\ \A k \in 1..(Len(all_elements) - 1) :
               ( /\ KindType[nodes[all_elements[k]]] = "heading"
                 /\ KindType[nodes[all_elements[k + 1]]] = "paragraph" )
               => /\ \E g \in DOMAIN P :
                         /\ P[g].type = "heading+paragraph"
                         /\ P[g].doc_indices = <<k - 1, k>>
                         /\ P[g].elements = <<all_elements[k], all_elements[k + 1]>>
                  /\ \E g \in DOMAIN P :
                         /\ P[g].type = "paragraph"
                         /\ P[g].doc_indices = <<k>>
                         /\ P[g].elements = <<all_elements[k + 1]>>

\* the groups of a heading, a paragraph and an element of no type are extracted
C10_Witness ==
    /\ Extracted
    /\ TypesOf(all_elements) = <<"heading", "paragraph", "None">>
    /\ Len(P) = 2

----------------------------------------------------------------------------
(* Properties of extract_groups. *)

\* the groups of P whose window starts at the 0-based index start
GroupsAt(start) == {g \in DOMAIN P : P[g].doc_indices[1] = start}

\* the window of len elements from the 0-based index start fits in the
\* document and its types are those of a pattern
WindowMatches(start, len) ==
    /\ start + len <= Len(all_elements)
    /\ \E k \in DOMAIN G :
           G[k].types = [m \in 1..len |-> KindType[nodes[all_elements[start + m]]]]

\* no pattern of the catalog is the start of a longer pattern of the catalog
PrefixFree ==
    \A a, b \in DOMAIN G :
        Len(G[a].types) < Len(G[b].types)
            => SubSeq(G[b].types, 1, Len(G[a].types)) # G[a].types

\* C11 as stated: whatever the pattern catalog, at most one group is emitted
\* per start position.
C11_OneGroupPerStart ==
    Extracted =>
        \A start \in 0..(Len(all_elements) - 1) : Cardinality(GroupsAt(start)) <= 1

\* C11, restricted: every window that fits and matches a pattern emits its
\* group, the groups of one start position longest first and the start
\* positions in order; at most one group is emitted per start position when
\* no pattern of the catalog is the start of a longer pattern.
C11_EveryMatchEmitted ==
    Extracted =>
        /\ \A start \in 0..(Len(all_elements) - 1) : \A len \in 1..L :
               WindowMatches(start, len) <=>
                   \E g \in GroupsAt(start) : Len(P[g].doc_indices) = len
        /\ \A g, h \in DOMAIN P :
               g < h =>
                   \/ P[g].doc_indices[1] < P[h].doc_indices[1]
                   \/ /\ P[g].doc_indices[1] = P[h].doc_indices[1]
                      /\ Len(P[g].doc_indices) > Len(P[h].doc_indices)
        /\ \A g \in DOMAIN P : P[g].group_index = g - 1
        /\ PrefixFree =>
               \A start \in 0..(Len(all_elements) - 1) :
                   Cardinality(GroupsAt(start)) <= 1

\* under the catalog of the source, a window of two elements and a window of
\* one element have each emitted a group
C11_Witness ==
    /\ Extracted
    /\ G = GROUP_PATTERNS
    /\ PrefixFree
    /\ \E g, h \in DOMAIN P :
           Len(P[g].doc_indices) = 2 /\ Len(P[h].doc_indices) = 1

\* C12: every group is a window of consecutive indices of the document, its
\* elements are the elements at these indices, and the types of these
\* elements are, one by one, the types of the pattern it is named after; no
\* group holds an element of no type.
C12_ExactGapFreeMatch ==
    Extracted =>
        \A g \in DOMAIN P :
            /\ Len(P[g].doc_indices) >= 1
            /\ \A m \in DOMAIN P[g].doc_indices :
                   /\ P[g].doc_indices[m] = P[g].doc_indices[1] + m - 1
                   /\ P[g].doc_indices[m] < Len(all_elements)
            /\ P[g].elements =
                   [m \in DOMAIN P[g].doc_indices |-> At(all_elements, P[g].doc_indices[m])]
            /\ \E k \in DOMAIN G :
                   /\ G[k].name = P[g].type
                   /\ G[k].types = TypesOf(P[g].elements)
            /\ \A m \in DOMAIN P[g].elements :
                   KindType[nodes[P[g].elements[m]]] # "None"

\* an element of no type stands between a heading and a paragraph, and the
\* groups have been extracted: the paragraph's own, none with the heading
C12_Witness ==
    /\ Extracted
    /\ G = GROUP_PATTERNS
    /\ TypesOf(all_elements) = <<"heading", "None", "paragraph">>
    /\ Len(P) = 1
    /\ P[1].doc_indices = <<2>>


----------------------------------------------------------------------------
\* Properties of _calculate_page_positions (script.py), checked on the
\* element_pages of every reachable state of the script: the first estimate
\* (line 407) and every re-estimate after an insert (line 449).

\* the estimated heights of the current elements, in document order
CurrentHeights == [k \in DOMAIN all_elements |-> KindHeight[nodes[all_elements[k]]]]

PagesRecorded == element_pages # <<>>

\* C13: the page assigned to an element is never smaller than the page of the
\* element before it, in the first estimate and in every re-estimate after an
\* insert.
C13_PagesMonotonic ==
    PagesRecorded =>
        /\ Len(element_pages) = Len(all_elements)
        /\ \A k \in 1..(Len(element_pages) - 1) : element_pages[k] <= element_pages[k + 1]

\* a re-estimate after an insert has run and the elements span several pages
C13_Witness ==
    /\ prog = "script" /\ pc = "while" /\ line_breaks_added >= 1
    /\ \E k \in 1..(Len(element_pages) - 1) : element_pages[k] < element_pages[k + 1]

RECURSIVE SumHeights(_)
SumHeights(hs) == IF hs = <<>> THEN 0 ELSE Head(hs) + SumHeights(Tail(hs))

\* the indices of the elements assigned to page p
OnPage(p) == {k \in DOMAIN element_pages : element_pages[k] = p}

\* summed heights of the elements of page p with index at most last
PageHeightUpTo(p, last) ==
    SumHeights([k \in 1..last |-> IF element_pages[k] = p THEN CurrentHeights[k] ELSE 0])

PageLimit == PAGE_CONTENT_HEIGHT * HeightUnit

\* C14: the first element is measured against an empty page 1; an element
\* that would carry the height accumulated on the current page over
\* PAGE_CONTENT_HEIGHT goes to the next page, which then holds that element's
\* height alone; any other element stays on the current page.  So a page's
\* summed heights exceed PAGE_CONTENT_HEIGHT only if it holds one element.
C14_OverflowRule ==
    PagesRecorded =>
        /\ element_pages[1] = IF CurrentHeights[1] > PageLimit THEN 2 ELSE 1
        /\ \A k \in 2..Len(element_pages) :
              element_pages[k] =
                  IF PageHeightUpTo(element_pages[k - 1], k - 1) + CurrentHeights[k] > PageLimit
                  THEN element_pages[k - 1] + 1
                  ELSE element_pages[k - 1]
        /\ \A p \in {element_pages[k] : k \in DOMAIN element_pages} :
              \/ PageHeightUpTo(p, Len(element_pages)) <= PageLimit
              \/ Cardinality(OnPage(p)) = 1

\* one page holds several elements, another holds a single element taller
\* than a page, and a third was opened by an overflow of accumulated height
C14_Witness ==
    /\ PagesRecorded
    /\ \E p \in {element_pages[k] : k \in DOMAIN element_pages} : Cardinality(OnPage(p)) >= 2
    /\ \E k \in DOMAIN element_pages :
          /\ CurrentHeights[k] > PageLimit
          /\ OnPage(element_pages[k]) = {k}
    /\ \E k \in 2..Len(element_pages) :
          /\ element_pages[k] = element_pages[k - 1] + 1
          /\ CurrentHeights[k] <= PageLimit


----------------------------------------------------------------------------
(* Properties of the functions called alone. *)

Returned(fn) == prog = "functions" /\ pc = "returned" /\ returned[1] = fn

\* the smallest whole number that is at least a / b
Ceil(a, b) == (a + b - 1) \div b

\* ceil(char_count / chars_per_line) * line_height + 6, in the units of
\* _estimate_element_height
WholeLinesHeight(text) ==
    IF Strip(text) = <<>>
    THEN line_height * HeightUnit
    ELSE Ceil(Len(text) * char_width, CONTENT_WIDTH) * HeightUnit * line_height
             + 60 * HeightUnit

\* C15: an element of blank text costs one line height, any other element a
\* whole number of lines, ceil(char_count / chars_per_line), of line height
\* plus 6 pt.
C15_WholeNumberOfLines ==
    Returned("_estimate_element_height") =>
        returned[2] = WholeLinesHeight(_get_text_content(arg_element))

C18_LastInRun ==
    Returned("_is_last_list_item") /\ arg_element.numPr =>
        LET level(e) == IF e.has_ilvl THEN e.ilvl ELSE 0
            same_list(e, n) == /\ e.has_numId = n.has_numId
                               /\ e.has_numId => e.numId = n.numId
        IN  returned[2] =
                \/ arg_next_element = <<>>
                \/ /\ arg_next_element # <<>>
                   /\ \/ ~arg_next_element[1].numPr
                      \/ ~same_list(arg_element, arg_next_element[1])
                      \/ level(arg_next_element[1]) < level(arg_element)

\* a list item without w:ilvl followed by an item of the same list at level
\* 1 is not the last
C18_Witness ==
    /\ Returned("_is_last_list_item")
    /\ arg_element.numPr /\ ~arg_element.has_ilvl
    /\ arg_next_element # <<>>
    /\ arg_next_element[1].numPr
    /\ arg_next_element[1].has_ilvl /\ arg_next_element[1].ilvl = 1
    /\ ListId(arg_element) = ListId(arg_next_element[1])
    /\ returned[2] = FALSE


----------------------------------------------------------------------------
(* Properties of the two functions that keep one empty paragraph. *)

IsBlankParagraph(e) == Catalog[nodes[e]].tag = "p" /\ Strip(Catalog[nodes[e]].text) = <<>>

\* the length of the run of blank paragraphs that follows index
\* current_index (0-based) of elements
BlankRun(elements, current_index) ==
    LET runs == {r \in 0..(Len(elements) - current_index - 1) :
                    \A k \in 1..r : IsBlankParagraph(elements[current_index + 1 + k])}
    IN  CHOOSE r \in runs : \A q \in runs : q <= r

\* seq without the positions first..last (1-based)
Without(seq, first, last) ==
    SubSeq(seq, 1, first - 1) \o SubSeq(seq, last + 1, Len(seq))

Applied == prog = "blank" /\ Len(returned') = Len(returned) + 1

\* C16: applied at an element followed by a run of one or more blank
\* paragraphs, either function keeps the first paragraph of the run, removes
\* the others and nothing else, in body and in all_elements; applied again
\* right after itself, a function removes nothing, adds nothing and leaves
\* body and all_elements as they are.
C16_CollapseToFirstBlankIdempotent ==
    [][Applied =>
        LET c == arg_current_index
            r == BlankRun(all_elements, c)
            fn == returned'[Len(returned')][1]
            value == returned'[Len(returned')][2]
        IN  /\ r >= 1 =>
                  /\ all_elements' = Without(all_elements, c + 3, c + 1 + r)
                  /\ body' = Without(body, c + 3, c + 1 + r)
                  /\ all_elements'[c + 2] = all_elements[c + 2]
                  /\ BlankRun(all_elements', c) = 1
                  /\ nodes' = nodes
            /\ returned # <<>> /\ returned[Len(returned)][1] = fn =>
                  /\ body' = body
                  /\ all_elements' = all_elements
                  /\ nodes' = nodes
                  /\ IF fn = "_cleanup_excess_empty_paragraphs"
                     THEN value = 0
                     ELSE value # "added"
    ]_vars

\* a function has removed two paragraphs of a run of three and then been
\* applied a second time
C16_Witness ==
    /\ prog = "blank"
    /\ Len(returned) = 2
    /\ returned[1][1] = returned[2][1]
    /\ Len(all_elements) = Len(nodes) - 2
    /\ BlankRun(all_elements, arg_current_index) = 1


----------------------------------------------------------------------------
(* Properties of the rendering steps of visual_approach.py. *)

\* C19: a failure of generate_pdf or of extract_pdf_data does not end the
\* run in an unhandled error.
C19_RenderFailureContained == prog = "visual" => pc # "crashed"

\* C20: the document handed to the rendering service is the document the
\* groups were extracted from, the elements that remain after
\* remove_empty_elements.
C20_RenderedDocumentIsCurrent ==
    prog = "visual" /\ pc \in {"extract_pdf", "detect", "done"} => uploaded = all_elements


----------------------------------------------------------------------------
(* Properties of remove_empty_elements (visual_approach.py). *)

\* the elements of the body as parsed, in document order
OriginalElements == [k \in DOMAIN nodes |-> k]

\* C21: after remove_empty_elements the body and the returned list hold, in
\* their original order, exactly the elements that are not paragraphs of
\* blank text; an element without text that is no paragraph is kept.
C21_OnlyEmptyParagraphsRemoved ==
    prog = "visual" /\ pc = "extract" =>
        /\ all_elements = SelectSeq(OriginalElements, LAMBDA e : ~IsBlankParagraph(e))
        /\ body = all_elements


----------------------------------------------------------------------------
(* Properties of the reports of the reflow loop of script.py at its end. *)

\* message msg was printed for the group of index g
Reported(msg, g) == \E k \in DOMAIN printed : printed[k].msg = msg /\ printed[k].group = g

\* a group that was never found split, or was reported fixed, and for which
\* no warning was printed
WithoutFailure(g) ==
    /\ ~Reported("warning", g)
    /\ ~Reported("spans", g) \/ Reported("fixed", g)

\* the pages of the members of the group of index g in element_pages
FinalPages(g) == UniquePages(element_pages, IndicesOf(all_elements, At(groups, g)))

\* an inserted empty paragraph lies between two members of the group of
\* index g
BlankInside(g) ==
    LET indices == IndicesOf(all_elements, At(groups, g))
    IN  \E k \in DOMAIN all_elements :
            /\ all_elements[k] > OriginalLen
            /\ \E a, b \in Range(indices) : a < k - 1 /\ k - 1 < b

\* C22: at the end of the run every group without a reported failure has
\* its members on one page of the last estimate.
C22_FixedGroupsStayOnOnePage ==
    prog = "script" /\ pc = "done" =>
        \A g \in 0..(Len(groups) - 1) : WithoutFailure(g) => Cardinality(FinalPages(g)) <= 1

\* C22: at the end of the run no inserted empty paragraph lies between two
\* members of a group.
C22_NoBlankInsideAGroup ==
    prog = "script" /\ pc = "done" => \A g \in 0..(Len(groups) - 1) : ~BlankInside(g)

\* C22: reflow fixes are not undone by later fixes.
C22_FixesNotUndone == C22_FixedGroupsStayOnOnePage /\ C22_NoBlankInsideAGroup

\* C23: for no group both success and failure are reported.
C23_FixedOrWarningNotBoth ==
    prog = "script" =>
        \A g \in 0..(Len(groups) - 1) : ~(Reported("fixed", g) /\ Reported("warning", g))

====
